---- MODULE Spec2Model ----
(***************************************************************************)
(* Model of the two constraint-programming scripts of the repository:      *)
(*   logic_puzzle.py      (LogicPuzzle, SolutionPrinter)                    *)
(*   project_planning.py  (ProjectPlanning, SolutionPrinter)                *)
(* Each script builds a CP model (Boolean variables and constraints),      *)
(* hands it to SearchForAllSolutions together with a solution callback,    *)
(* and prints a summary.  The CP model is kept as data (variables are       *)
(* numbered in creation order, a literal is +v or -v), the search is a      *)
(* depth-first enumeration of the assignments of those variables, and the   *)
(* callback is run on every assignment that satisfies every constraint.     *)
(***************************************************************************)
EXTENDS Integers, Sequences, FiniteSets, TLC

VARIABLES
    prog,          \* which script runs: "puzzle" or "staffing"
    data,          \* the workbook read by import_data (staffing)
    project_plan,  \* the stacked DataFrame built by import_data (staffing)
    model,         \* self.model: [nvars, cts]
    asg,           \* the search's current partial assignment, asg[v] for v <= Len(asg)
    pc,            \* position in solve()
    n_solutions,   \* sol_printer.n_solutions
    status,        \* the status SearchForAllSolutions returned
    out            \* what has been printed, in order

vars == <<prog, data, project_plan, model, asg, pc, n_solutions, status, out>>

----------------------------------------------------------------------------
(* Generic helpers *)

Range(s) == {s[i] : i \in DOMAIN s}

Pos(s, x) == CHOOSE i \in DOMAIN s : s[i] = x

RECURSIVE SeqSum(_)
SeqSum(s) == IF s = <<>> THEN 0 ELSE s[1] + SeqSum(Tail(s))

RECURSIVE Flatten(_)
Flatten(ss) == IF ss = <<>> THEN <<>> ELSE ss[1] \o Flatten(Tail(ss))

Ones(n) == [i \in 1..n |-> 1]

----------------------------------------------------------------------------
(* The CP-SAT modelling calls used by both scripts.  A constraint is a     *)
(* record; enf is the list of enforcement literals (OnlyEnforceIf).        *)

Not(lit) == -lit

Linear(vs, coeffs, op, rhs) ==
    [kind |-> "linear", vars |-> vs, coeffs |-> coeffs, op |-> op, rhs |-> rhs, enf |-> <<>>]

AddBoolAnd(lits) ==
    [kind |-> "bool_and", vars |-> lits, coeffs |-> <<>>, op |-> "", rhs |-> 0, enf |-> <<>>]

AddBoolOr(lits) ==
    [kind |-> "bool_or", vars |-> lits, coeffs |-> <<>>, op |-> "", rhs |-> 0, enf |-> <<>>]

OnlyEnforceIf(ct, lit) == [ct EXCEPT !.enf = <<lit>>]

SumEq(vs, rhs) == Linear(vs, Ones(Len(vs)), "==", rhs)

SumLe(vs, rhs) == Linear(vs, Ones(Len(vs)), "<=", rhs)

(* Evaluation of literals and constraints under a partial assignment a.    *)

Var(lit) == IF lit > 0 THEN lit ELSE -lit

Assigned(a, lit) == Var(lit) <= Len(a)

LitTrue(a, lit) == IF lit > 0 THEN a[lit] ELSE ~a[-lit]

Min(x, y) == IF x < y THEN x ELSE y

Max(x, y) == IF x > y THEN x ELSE y

\* least and greatest value the linear expression can still take
MinSum(a, ct) ==
    SeqSum([i \in 1..Len(ct.vars) |->
        IF Assigned(a, ct.vars[i])
            THEN (IF a[ct.vars[i]] THEN ct.coeffs[i] ELSE 0)
            ELSE Min(ct.coeffs[i], 0)])

MaxSum(a, ct) ==
    SeqSum([i \in 1..Len(ct.vars) |->
        IF Assigned(a, ct.vars[i])
            THEN (IF a[ct.vars[i]] THEN ct.coeffs[i] ELSE 0)
            ELSE Max(ct.coeffs[i], 0)])

\* the constraint's body can no longer be satisfied by any extension of a
LinearViolated(a, ct) ==
    CASE ct.op = "==" -> MinSum(a, ct) > ct.rhs \/ MaxSum(a, ct) < ct.rhs
      [] ct.op = "<=" -> MinSum(a, ct) > ct.rhs
      [] ct.op = ">=" -> MaxSum(a, ct) < ct.rhs

BodyViolated(a, ct) ==
    CASE ct.kind = "linear" -> LinearViolated(a, ct)
      [] ct.kind = "bool_and" ->
            \E i \in 1..Len(ct.vars) : Assigned(a, ct.vars[i]) /\ ~LitTrue(a, ct.vars[i])
      [] ct.kind = "bool_or" ->
            \A i \in 1..Len(ct.vars) : Assigned(a, ct.vars[i]) /\ ~LitTrue(a, ct.vars[i])

Enforced(a, ct) ==
    \A i \in 1..Len(ct.enf) : Assigned(a, ct.enf[i]) /\ LitTrue(a, ct.enf[i])

Violated(a, ct) == Enforced(a, ct) /\ BodyViolated(a, ct)

Conflict(a, m) == \E i \in 1..Len(m.cts) : Violated(a, m.cts[i])

Complete(a, m) == Len(a) = m.nvars

\* a complete assignment that satisfies every constraint of the model
Feasible(a, m) == Complete(a, m) /\ ~Conflict(a, m)

----------------------------------------------------------------------------
(* logic_puzzle.py *)

students == <<"Carol", "Elisa", "Oliver", "Lucas">>

nationalities == <<"USA", "Canada", "Australia", "South Africa">>

universities == <<"London", "Oxford", "Cambridge", "Edinburgh">>

courses == <<"History", "Medicine", "Law", "Architecture">>

\* the three 4x4 matrices of BoolVars, numbered in creation order
Matrix(attrs, base) ==
    [s \in Range(students) |->
        [x \in Range(attrs) |-> base + (Pos(students, s) - 1) * Len(attrs) + Pos(attrs, x)]]

student_nationality == Matrix(nationalities, 0)

student_university == Matrix(universities, Len(students) * Len(nationalities))

student_course ==
    Matrix(courses, Len(students) * Len(nationalities) + Len(students) * Len(universities))

PuzzleNVars ==
    Len(students) * (Len(nationalities) + Len(universities) + Len(courses))

Column(matrix, x) == [i \in 1..Len(students) |-> matrix[students[i]][x]]

Row(matrix, attrs, s) == [i \in 1..Len(attrs) |-> matrix[s][attrs[i]]]

Clue1 == <<SumEq(Column(student_university, "London"), 1)>>

\* Clue2 without the constraint on the boys
Clue2_GirlsOnly ==
    << SumEq(<<student_university["Carol"]["Cambridge"],
               student_university["Elisa"]["Edinburgh"]>>, 1) >>

Clue2 ==
    << SumEq(<<student_university["Carol"]["Cambridge"],
               student_university["Elisa"]["Edinburgh"]>>, 1),
       SumEq(<<student_university["Oliver"]["Oxford"],
               student_university["Lucas"]["London"]>>, 1) >>

\* Clue3 enforced in one direction only
Clue3_OneWay ==
    << OnlyEnforceIf(AddBoolAnd(<<student_nationality["Oliver"]["Australia"],
                                  student_course["Lucas"]["History"]>>),
                     Not(student_course["Oliver"]["History"])) >>

Clue3 ==
    << OnlyEnforceIf(AddBoolAnd(<<student_nationality["Oliver"]["Australia"],
                                  student_course["Lucas"]["History"]>>),
                     Not(student_course["Oliver"]["History"])),
       OnlyEnforceIf(AddBoolAnd(<<student_nationality["Lucas"]["Australia"],
                                  student_course["Oliver"]["History"]>>),
                     Not(student_course["Lucas"]["History"])) >>

Clue4 ==
    << OnlyEnforceIf(AddBoolAnd(<<student_university["Carol"]["Cambridge"],
                                  student_course["Elisa"]["Medicine"]>>),
                     Not(student_course["Carol"]["Medicine"])),
       OnlyEnforceIf(AddBoolAnd(<<student_university["Elisa"]["Cambridge"],
                                  student_course["Carol"]["Medicine"]>>),
                     Not(student_course["Elisa"]["Medicine"])) >>

Clue5 ==
    << AddBoolOr(<<student_nationality["Oliver"]["USA"], student_course["Oliver"]["Law"]>>),
       AddBoolAnd(<<Not(student_nationality["Oliver"]["South Africa"])>>) >>

Clue6 ==
    [i \in 1..Len(students) |->
        OnlyEnforceIf(AddBoolOr(<<student_course[students[i]]["History"],
                                  student_university[students[i]]["Oxford"]>>),
                      student_nationality[students[i]]["Canada"])]

Clue7 ==
    [i \in 1..Len(students) |->
        OnlyEnforceIf(AddBoolOr(<<student_course[students[i]]["Law"],
                                  student_university[students[i]]["Edinburgh"]>>),
                      student_nationality[students[i]]["South Africa"])]

ExplicitConstraints == Clue1 \o Clue2 \o Clue3 \o Clue4 \o Clue5 \o Clue6 \o Clue7

ColumnSums(matrix, attrs) ==
    [i \in 1..Len(attrs) |-> SumEq(Column(matrix, attrs[i]), 1)]

RowSums ==
    Flatten([i \in 1..Len(students) |->
        << SumEq(Row(student_nationality, nationalities, students[i]), 1),
           SumEq(Row(student_university, universities, students[i]), 1),
           SumEq(Row(student_course, courses, students[i]), 1) >>])

\* ImplicitConstraints without part (4), the sums over each student's row
ImplicitConstraints_ColumnsOnly ==
    ColumnSums(student_nationality, nationalities)
        \o ColumnSums(student_university, universities)
        \o ColumnSums(student_course, courses)

ImplicitConstraints ==
    ColumnSums(student_nationality, nationalities)
        \o ColumnSums(student_university, universities)
        \o ColumnSums(student_course, courses)
        \o RowSums

\* the for/break loops of the printer: the first attribute whose indicator
\* is true, the last attribute of the list when none is
FirstTrue(a, matrix, attrs, s) ==
    IF \E i \in 1..Len(attrs) : a[matrix[s][attrs[i]]]
        THEN attrs[CHOOSE i \in 1..Len(attrs) :
                      /\ a[matrix[s][attrs[i]]]
                      /\ \A j \in 1..(i - 1) : ~a[matrix[s][attrs[j]]]]
        ELSE attrs[Len(attrs)]

PuzzleTable(a) ==
    [i \in 1..Len(students) |->
        [Student     |-> students[i],
         Nationality |-> FirstTrue(a, student_nationality, nationalities, students[i]),
         University  |-> FirstTrue(a, student_university, universities, students[i]),
         Course      |-> FirstTrue(a, student_course, courses, students[i])]]

PuzzleBlock(a, n) == [kind |-> "solution", number |-> n, table |-> PuzzleTable(a)]

----------------------------------------------------------------------------
(* project_planning.py *)

\* A sheet is a sequence of rows, a row a sequence of cells; df.iloc[i] is
\* row i + 1.  A cell is NaN (empty) or Cell(v).  A number read from the
\* workbook is a float, kept in tenths: Float(400, 5) is 400.5.

NaN == <<>>

Cell(v) == <<v>>

ValueOf(cell) == cell[1]

Float(whole, tenths) == whole * 10 + tenths

\* x.astype(int) of a non-negative float: the fraction is dropped
AsTypeInt(x) == x \div 10

Iloc(df, i) == df[i + 1]

NotNull(x) == x # NaN

\* Series.unique(): the distinct values in order of first appearance
RECURSIVE Unique(_)
Unique(s) ==
    IF s = <<>> THEN <<>>
    ELSE LET rest == Unique(SubSeq(s, 1, Len(s) - 1))
         IN  IF s[Len(s)] \in Range(rest) THEN rest ELSE Append(rest, s[Len(s)])

\* list.sort() of a list of distinct integers
RECURSIVE Sorted(_)
Sorted(S) ==
    IF S = {} THEN <<>>
    ELSE LET lo == CHOOSE x \in S : \A y \in S : x <= y
         IN  <<lo>> \o Sorted(S \ {lo})

\* The labels of the workbook's sheets: the header of the Quotes sheet (one
\* column per job), its index (the contractors), the index of the Projects
\* sheet and its header (the months).  ProjectNames is in ascending order.
JobNames == <<"A", "B">>

ContractorNames == <<"X", "Y">>

ProjectNames == <<"P1", "P2">>

MonthNames == <<"M1", "M2">>

\* ImportData taking every month in which the project requires any job
ImportData_AnyJob(d) ==
    Flatten([cc \in 1..Len(d.quotes) |->
      Flatten([jj \in 1..Len(JobNames) |->
        IF NotNull(Iloc(d.quotes, cc - 1)[jj])
        THEN Flatten([pp \in 1..Len(d.projects) |->
               Flatten([mm \in 1..Len(Iloc(d.projects, pp - 1)) |->
                 IF NotNull(Iloc(d.projects, pp - 1)[mm])
                 THEN << [Contractor |-> cc - 1, Job |-> jj - 1, Project |-> pp - 1,
                          Month |-> mm - 1, Quote |-> ValueOf(Iloc(d.quotes, cc - 1)[jj])] >>
                 ELSE <<>>])])
        ELSE <<>>])])

\* import_data: one row per contractor c, job j the contractor quoted for,
\* project p and month m in which p requires j
ImportData(d) ==
    Flatten([cc \in 1..Len(d.quotes) |->
      Flatten([jj \in 1..Len(JobNames) |->
        IF NotNull(Iloc(d.quotes, cc - 1)[jj])
        THEN Flatten([pp \in 1..Len(d.projects) |->
               Flatten([mm \in 1..Len(Iloc(d.projects, pp - 1)) |->
                 IF Iloc(d.projects, pp - 1)[mm] = Cell(JobNames[jj])
                 THEN << [Contractor |-> cc - 1, Job |-> jj - 1, Project |-> pp - 1,
                          Month |-> mm - 1, Quote |-> ValueOf(Iloc(d.quotes, cc - 1)[jj])] >>
                 ELSE <<>>])])
        ELSE <<>>])])

Key(row) == <<row.Contractor, row.Job, row.Project, row.Month>>

\* identify_and_create_variables: p_0 .. p_(n-1), then one h_c_j_p_m per row
var_projects(d) == [i \in 1..Len(d.projects) |-> i]

var_hiring(d, plan) ==
    [k \in {Key(plan[r]) : r \in 1..Len(plan)} |->
        Len(d.projects) + (CHOOSE r \in 1..Len(plan) : Key(plan[r]) = k)]

StaffingNVars(d, plan) == Len(d.projects) + Len(plan)

HiringVars(d, plan, query) ==
    [i \in 1..Len(query) |-> var_hiring(d, plan)[Key(query[i])]]

Months(rows) == Unique([i \in 1..Len(rows) |-> rows[i].Month])

OfContractor(plan, c) == SelectSeq(plan, LAMBDA r : r.Contractor = c)

OfProject(plan, p) == SelectSeq(plan, LAMBDA r : r.Project = p)

InMonth(rows, m) == SelectSeq(rows, LAMBDA r : r.Month = m)

max_n_projects == 1

max_n_contractors == 1

MinProfitMargin == 2500

\* ConstraintsC1 with the test len(query) > max_n_projects off by one
ConstraintsC1_OffByOne(d, plan) ==
    Flatten([cc \in 1..Len(d.quotes) |->
      LET mine == OfContractor(plan, cc - 1)
          candidate_months == Months(mine)
      IN  Flatten([k \in 1..Len(candidate_months) |->
            LET query == InMonth(mine, candidate_months[k])
            IN  IF Len(query) > max_n_projects + 1
                THEN << SumLe(HiringVars(d, plan, query), max_n_projects) >>
                ELSE <<>>])])

\* C.1: a contractor cannot work on two projects simultaneously
ConstraintsC1(d, plan) ==
    Flatten([cc \in 1..Len(d.quotes) |->
      LET mine == OfContractor(plan, cc - 1)
          candidate_months == Months(mine)
      IN  Flatten([k \in 1..Len(candidate_months) |->
            LET query == InMonth(mine, candidate_months[k])
            IN  IF Len(query) > max_n_projects
                THEN << SumLe(HiringVars(d, plan, query), max_n_projects) >>
                ELSE <<>>])])

\* C.2: one contractor per job of an accepted project
ConstraintsC2(d, plan) ==
    Flatten([pp \in 1..Len(d.projects) |->
      LET mine == OfProject(plan, pp - 1)
          candidate_months == Months(mine)
      IN  Flatten([k \in 1..Len(candidate_months) |->
            LET query == InMonth(mine, candidate_months[k])
            IN  IF Len(query) > max_n_contractors
                THEN << OnlyEnforceIf(SumEq(HiringVars(d, plan, query), max_n_contractors),
                                      var_projects(d)[pp]) >>
                ELSE <<>>])])

\* ConstraintsC3 enforced when the project is taken on
ConstraintsC3_Accepted(d, plan) ==
    [pp \in 1..Len(d.projects) |->
        OnlyEnforceIf(SumEq(HiringVars(d, plan, OfProject(plan, pp - 1)), 0),
                      var_projects(d)[pp])]

\* C.3: nobody is contracted for a project that is not taken on
ConstraintsC3(d, plan) ==
    [pp \in 1..Len(d.projects) |->
        OnlyEnforceIf(SumEq(HiringVars(d, plan, OfProject(plan, pp - 1)), 0),
                      Not(var_projects(d)[pp]))]

\* the indices of the projects row p of the Dependencies sheet marks
ProjectDependencies(d, p) ==
    SelectSeq([i \in 1..Len(Iloc(d.dependencies, p)) |-> i - 1],
              LAMBDA i : NotNull(Iloc(d.dependencies, p)[i + 1]))

\* ConstraintsC4 with project and dependency exchanged
ConstraintsC4_Reversed(d) ==
    Flatten([pp \in 1..Len(d.dependencies) |->
      LET project_dependencies == ProjectDependencies(d, pp - 1)
      IN  [k \in 1..Len(project_dependencies) |->
             OnlyEnforceIf(AddBoolAnd(<<var_projects(d)[pp]>>),
                           var_projects(d)[project_dependencies[k] + 1])]])

\* C.4: a project is delivered only if its dependencies are
ConstraintsC4(d) ==
    Flatten([pp \in 1..Len(d.dependencies) |->
      LET project_dependencies == ProjectDependencies(d, pp - 1)
      IN  [k \in 1..Len(project_dependencies) |->
             OnlyEnforceIf(AddBoolAnd(<<var_projects(d)[project_dependencies[k] + 1]>>),
                           var_projects(d)[pp])]])

\* C.5: revenue - costs >= 2500
ConstraintsC5(d, plan) ==
    << Linear([i \in 1..Len(d.value) |-> var_projects(d)[i]] \o HiringVars(d, plan, plan),
              [i \in 1..Len(d.value) |-> AsTypeInt(ValueOf(Iloc(d.value, i - 1)[1]))]
                  \o [i \in 1..Len(plan) |-> 0 - AsTypeInt(plan[i].Quote)],
              ">=", MinProfitMargin) >>

StaffingConstraints(d, plan) ==
    ConstraintsC1(d, plan) \o ConstraintsC2(d, plan) \o ConstraintsC3(d, plan)
        \o ConstraintsC4(d) \o ConstraintsC5(d, plan)

\* SolutionPrinter.OnSolutionCallback of project_planning.py
PrintedRevenue(d, a) ==
    SeqSum([i \in 1..Len(d.value) |->
        AsTypeInt(ValueOf(Iloc(d.value, i - 1)[1])) * (IF a[var_projects(d)[i]] THEN 1 ELSE 0)])

\* PrintedCosts with the quotes rounded instead of truncated
PrintedCosts_Rounded(d, plan, a) ==
    SeqSum([i \in 1..Len(plan) |->
        (IF a[var_hiring(d, plan)[Key(plan[i])]] THEN 1 ELSE 0) * AsTypeInt(plan[i].Quote + 5)])

PrintedCosts(d, plan, a) ==
    SeqSum([i \in 1..Len(plan) |->
        (IF a[var_hiring(d, plan)[Key(plan[i])]] THEN 1 ELSE 0) * AsTypeInt(plan[i].Quote)])

project_solution(d, plan, a) ==
    SelectSeq(plan, LAMBDA r : a[var_hiring(d, plan)[Key(r)]])

\* the names of the projects of the rows of sol, sorted
projects_to_take_on(sol) ==
    LET ids == Sorted({sol[i].Project : i \in 1..Len(sol)})
    IN  [i \in 1..Len(ids) |-> ProjectNames[ids[i] + 1]]

\* the lines "<contractor> will work on <project> during <month>"
WorkLines(sol) ==
    LET cs == Unique([i \in 1..Len(sol) |-> sol[i].Contractor])
    IN  Flatten([ci \in 1..Len(cs) |->
          LET ofc == SelectSeq(sol, LAMBDA r : r.Contractor = cs[ci])
              ps  == Unique([i \in 1..Len(ofc) |-> ofc[i].Project])
          IN  Flatten([pi \in 1..Len(ps) |->
                LET ofp == SelectSeq(ofc, LAMBDA r : r.Project = ps[pi])
                    ms  == Unique([i \in 1..Len(ofp) |-> ofp[i].Month])
                IN  [mi \in 1..Len(ms) |->
                       [contractor |-> ContractorNames[cs[ci] + 1],
                        project    |-> ProjectNames[ps[pi] + 1],
                        month      |-> MonthNames[ms[mi] + 1]]]])])

StaffingBlock(d, plan, a, n) ==
    LET sol == project_solution(d, plan, a)
    IN  [kind     |-> "solution",
         number   |-> n,
         taken_on |-> projects_to_take_on(sol),
         work     |-> WorkLines(sol),
         revenue  |-> PrintedRevenue(d, a),
         costs    |-> PrintedCosts(d, plan, a),
         margin   |-> PrintedRevenue(d, a) - PrintedCosts(d, plan, a)]

\* The workbooks the model is run on: the cells the sheets may hold and how
\* many cells of the Projects and Quotes sheets are filled in
MaxRequirements == 3

MaxQuotes == 2

ProjectCells == {NaN} \cup {Cell(JobNames[j]) : j \in 1..Len(JobNames)}

QuoteCells == {NaN, Cell(Float(400, 5))}

ValueCells == {Cell(Float(1500, 0)), Cell(Float(3000, 5))}

DependencyCells == {NaN, Cell(Float(1, 0))}

Filled(sheet) ==
    Cardinality({rc \in (DOMAIN sheet) \X (1..Len(sheet[1])) : NotNull(sheet[rc[1]][rc[2]])})

ProjectsSheets ==
    {sh \in [1..Len(ProjectNames) -> [1..Len(MonthNames) -> ProjectCells]] :
        Filled(sh) <= MaxRequirements}

QuotesSheets ==
    {sh \in [1..Len(ContractorNames) -> [1..Len(JobNames) -> QuoteCells]] :
        Filled(sh) <= MaxQuotes}

\* no project is marked as its own dependency
DependenciesSheets ==
    {sh \in [1..Len(ProjectNames) -> [1..Len(ProjectNames) -> DependencyCells]] :
        \A p \in 1..Len(ProjectNames) : sh[p][p] = NaN}

ValueSheets == [1..Len(ProjectNames) -> [1..1 -> ValueCells]]

Workbooks ==
    [projects     : ProjectsSheets,
     quotes       : QuotesSheets,
     dependencies : DependenciesSheets,
     value        : ValueSheets]

----------------------------------------------------------------------------
(* The search of SearchForAllSolutions *)

\* the constraints that mention variable v
Mentions(ct, v) ==
    \/ \E i \in 1..Len(ct.vars) : Var(ct.vars[i]) = v
    \/ \E i \in 1..Len(ct.enf) : Var(ct.enf[i]) = v

\* The search reaches a node only from a node without conflict, so a
\* constraint in conflict at the node a mentions the variable decided last.
DeadEnd(a, m) ==
    IF a = <<>> THEN Conflict(a, m)
    ELSE \E i \in 1..Len(m.cts) : Mentions(m.cts[i], Len(a)) /\ Violated(a, m.cts[i])

\* the value the search tries first for a variable it decides
FirstValue == FALSE

\* position of the last decided variable that still holds its first value
RECURSIVE LastOpen(_)
LastOpen(a) ==
    IF a = <<>> THEN 0
    ELSE IF a[Len(a)] = FirstValue THEN Len(a)
    ELSE LastOpen(SubSeq(a, 1, Len(a) - 1))

Exhausted(a) == LastOpen(a) = 0

\* the next branch: the last open variable takes its other value
NextNode(a) == Append(SubSeq(a, 1, LastOpen(a) - 1), ~FirstValue)

StatusOf(n) == IF n > 0 THEN "OPTIMAL" ELSE "INFEASIBLE"

----------------------------------------------------------------------------
NoData == [projects |-> <<>>, quotes |-> <<>>, dependencies |-> <<>>, value |-> <<>>]

EmptyModel == [nvars |-> 0, cts |-> <<>>]

InitPuzzle ==
    /\ prog = "puzzle"
    /\ data = NoData

InitStaffing ==
    /\ prog = "staffing"
    /\ data \in Workbooks

Init ==
    /\ (InitPuzzle \/ InitStaffing)
    /\ project_plan = <<>>
    /\ model = EmptyModel
    /\ asg = <<>>
    /\ pc = "step1"
    /\ n_solutions = 0
    /\ status = "NONE"
    /\ out = <<>>

\* LogicPuzzle.solve, step 1
objects_attributes_predicates ==
    /\ prog = "puzzle" /\ pc = "step1"
    /\ model' = [model EXCEPT !.nvars = PuzzleNVars]
    /\ pc' = "step2"
    /\ UNCHANGED <<prog, data, project_plan, asg, n_solutions, status, out>>

\* LogicPuzzle.solve, step 2
add_explicit_constraints ==
    /\ prog = "puzzle" /\ pc = "step2"
    /\ model' = [model EXCEPT !.cts = @ \o ExplicitConstraints]
    /\ pc' = "step3"
    /\ UNCHANGED <<prog, data, project_plan, asg, n_solutions, status, out>>

\* LogicPuzzle.solve, step 3
add_implicit_constraints ==
    /\ prog = "puzzle" /\ pc = "step3"
    /\ model' = [model EXCEPT !.cts = @ \o ImplicitConstraints]
    /\ pc' = "step4"
    /\ UNCHANGED <<prog, data, project_plan, asg, n_solutions, status, out>>

\* ProjectPlanning.solve, step 1
import_data ==
    /\ prog = "staffing" /\ pc = "step1"
    /\ project_plan' = ImportData(data)
    /\ pc' = "step2"
    /\ UNCHANGED <<prog, data, model, asg, n_solutions, status, out>>

\* ProjectPlanning.solve, step 2
identify_and_create_variables ==
    /\ prog = "staffing" /\ pc = "step2"
    /\ model' = [model EXCEPT !.nvars = StaffingNVars(data, project_plan)]
    /\ pc' = "step3"
    /\ UNCHANGED <<prog, data, project_plan, asg, n_solutions, status, out>>

\* ProjectPlanning.solve, step 3
define_and_implement_constraints ==
    /\ prog = "staffing" /\ pc = "step3"
    /\ model' = [model EXCEPT !.cts = @ \o StaffingConstraints(data, project_plan)]
    /\ pc' = "step4"
    /\ UNCHANGED <<prog, data, project_plan, asg, n_solutions, status, out>>

\* StartSearch with the printer's counter starting at 1
StartSearch_CountFromOne ==
    /\ pc = "step4"
    /\ n_solutions' = 1
    /\ out' = Append(out, [kind |-> "searching"])
    /\ asg' = <<>>
    /\ pc' = "search"
    /\ UNCHANGED <<prog, data, project_plan, model, status>>

\* solve, steps 4 and 5 up to the call of SearchForAllSolutions
StartSearch ==
    /\ pc = "step4"
    /\ n_solutions' = 0
    /\ out' = Append(out, [kind |-> "searching"])
    /\ asg' = <<>>
    /\ pc' = "search"
    /\ UNCHANGED <<prog, data, project_plan, model, status>>

\* the search decides the next variable
Branch ==
    /\ pc = "search"
    /\ ~Complete(asg, model) /\ ~DeadEnd(asg, model)
    /\ asg' = Append(asg, FirstValue)
    /\ UNCHANGED <<prog, data, project_plan, model, pc, n_solutions, status, out>>

\* OnSolutionCallback without the increment of n_solutions
OnSolutionCallback_NoIncrement ==
    /\ pc = "search"
    /\ Complete(asg, model) /\ ~DeadEnd(asg, model)
    /\ n_solutions' = n_solutions
    /\ out' = Append(out, IF prog = "puzzle"
                              THEN PuzzleBlock(asg, n_solutions)
                              ELSE StaffingBlock(data, project_plan, asg, n_solutions))
    /\ pc' = "resume"
    /\ UNCHANGED <<prog, data, project_plan, model, asg, status>>

\* the search found a solution and calls the callback
OnSolutionCallback ==
    /\ pc = "search"
    /\ Complete(asg, model) /\ ~DeadEnd(asg, model)
    /\ n_solutions' = n_solutions + 1
    /\ out' = Append(out, IF prog = "puzzle"
                              THEN PuzzleBlock(asg, n_solutions + 1)
                              ELSE StaffingBlock(data, project_plan, asg, n_solutions + 1))
    /\ pc' = "resume"
    /\ UNCHANGED <<prog, data, project_plan, model, asg, status>>

Stuck == (pc = "search" /\ DeadEnd(asg, model)) \/ pc = "resume"

\* the search leaves a dead end or a reported solution for the next branch
Backtrack ==
    /\ ~Exhausted(asg) /\ Stuck
    /\ asg' = NextNode(asg)
    /\ pc' = "search"
    /\ UNCHANGED <<prog, data, project_plan, model, n_solutions, status, out>>

\* every branch is explored: SearchForAllSolutions returns
SearchReturns ==
    /\ Exhausted(asg) /\ Stuck
    /\ status' = StatusOf(n_solutions)
    /\ pc' = "summary"
    /\ UNCHANGED <<prog, data, project_plan, model, asg, n_solutions, out>>

\* solve, the three prints after the search
Summary ==
    /\ pc = "summary"
    /\ out' = Append(out, [kind |-> "summary", status |-> status, count |-> n_solutions])
    /\ pc' = "done"
    /\ UNCHANGED <<prog, data, project_plan, model, asg, n_solutions, status>>

Next ==
    \/ objects_attributes_predicates
    \/ add_explicit_constraints
    \/ add_implicit_constraints
    \/ import_data
    \/ identify_and_create_variables
    \/ define_and_implement_constraints
    \/ StartSearch
    \/ Branch
    \/ OnSolutionCallback
    \/ Backtrack
    \/ SearchReturns
    \/ Summary

Spec == Init /\ [][Next]_vars

----------------------------------------------------------------------------
(* Properties *)

\* the search stands on an assignment that satisfies every constraint: the
\* callback is about to run on it (search) or has just run on it (resume)
SolutionFound == pc \in {"search", "resume"} /\ Feasible(asg, model)

PuzzleSolution == prog = "puzzle" /\ SolutionFound

StaffingSolution == prog = "staffing" /\ SolutionFound

\* the callback has just printed the block out[Len(out)] for asg
JustPrinted == pc = "resume"

\* the search's conflict test agrees with the constraints' semantics
DeadEndIsConflict == pc = "search" => (DeadEnd(asg, model) <=> Conflict(asg, model))

Accepted(p) == asg[var_projects(data)[p + 1]]

Hired(row) == asg[var_hiring(data, project_plan)[Key(row)]]

PlanRows == {project_plan[r] : r \in 1..Len(project_plan)}

ProjectIds == 0..(Len(data.projects) - 1)

Blocks == SelectSeq(out, LAMBDA e : e.kind = "solution")

\* C1 (as claimed): in every satisfying assignment of the puzzle model Oliver's
\* nationality is Australia and Oliver's course is Law.
C1_OliverAustraliaLaw ==
    PuzzleSolution =>
        /\ asg[student_nationality["Oliver"]["Australia"]]
        /\ asg[student_course["Oliver"]["Law"]]

\* C1 (amended): in every satisfying assignment of the puzzle model Oliver's
\* nationality is USA and Oliver's course is History.
C1_OliverUSAHistory ==
    PuzzleSolution =>
        /\ asg[student_nationality["Oliver"]["USA"]]
        /\ asg[student_course["Oliver"]["History"]]

C1_Witness ==
    /\ PuzzleSolution /\ JustPrinted
    /\ out[Len(out)].table[Pos(students, "Oliver")].Nationality = "USA"

\* C2: the puzzle model has exactly one satisfying assignment: when solve() is
\* done the callback has run exactly once, one block is printed and the
\* reported number of solutions is 1.
C2_ExactlyOneSolution ==
    (prog = "puzzle" /\ pc = "done") =>
        /\ n_solutions = 1
        /\ Len(Blocks) = 1
        /\ out[Len(out)].kind = "summary" /\ out[Len(out)].count = 1

C2_Witness == prog = "puzzle" /\ pc = "done" /\ Len(out) > 1

\* the months (0-based) in which project p requires a job
RequiredMonths(p) ==
    {m \in 0..(Len(Iloc(data.projects, p)) - 1) : NotNull(Iloc(data.projects, p)[m + 1])}

HiredFor(p, m) == {r \in PlanRows : r.Project = p /\ r.Month = m /\ Hired(r)}

\* C3: in every satisfying assignment of the staffing model, an accepted
\* project has exactly one contractor hired for every month in which it
\* requires a job, however many contractors are qualified for that job.
C3_OneContractorPerJob ==
    StaffingSolution =>
        \A p \in ProjectIds : Accepted(p) =>
            \A m \in RequiredMonths(p) : Cardinality(HiredFor(p, m)) = 1

\* C4: in every satisfying assignment of the staffing model, every hiring
\* variable of a project that is not taken on is false.
C4_NotTakenOnNobodyHired ==
    StaffingSolution =>
        \A p \in ProjectIds : ~Accepted(p) =>
            \A r \in PlanRows : r.Project = p => ~Hired(r)

C4_Witness ==
    /\ StaffingSolution /\ JustPrinted
    /\ \E p, q \in ProjectIds :
          /\ ~Accepted(p) /\ \E r \in PlanRows : r.Project = p
          /\ Accepted(q) /\ \E r \in PlanRows : r.Project = q /\ Hired(r)

\* C5: in every satisfying assignment of the staffing model, for every
\* contractor and month at most one hiring variable of that contractor and
\* month is true, also where only one candidate row exists.
C5_OneProjectPerMonth ==
    StaffingSolution =>
        \A r1, r2 \in PlanRows :
            (r1.Contractor = r2.Contractor /\ r1.Month = r2.Month /\ Hired(r1) /\ Hired(r2))
                => r1 = r2

\* a contractor with two candidate rows in one month is hired for one of
\* them, and a contractor with a single candidate row in a month is hired
C5_Witness ==
    /\ StaffingSolution /\ JustPrinted
    /\ \E r1, r2 \in PlanRows :
          /\ r1 # r2 /\ r1.Contractor = r2.Contractor /\ r1.Month = r2.Month
          /\ Hired(r1) /\ ~Hired(r2)
    /\ \E r1 \in PlanRows :
          /\ Hired(r1)
          /\ \A r2 \in PlanRows :
                (r2.Contractor = r1.Contractor /\ r2.Month = r1.Month) => r2 = r1

\* the projects row p of the Dependencies sheet marks
DependsOn(p) == Range(ProjectDependencies(data, p))

\* the projects reachable from the set S through chains of dependencies
RECURSIVE Closure(_)
Closure(S) ==
    LET T == S \cup UNION {DependsOn(p) : p \in S}
    IN  IF T = S THEN S ELSE Closure(T)

\* C6: in every satisfying assignment of the staffing model, an accepted
\* project's dependencies are accepted, and so is every project reachable
\* from an accepted project through a chain of dependencies.
C6_DependencyClosure ==
    StaffingSolution =>
        \A p \in ProjectIds : Accepted(p) =>
            /\ \A d \in DependsOn(p) : Accepted(d)
            /\ \A d \in Closure({p}) : Accepted(d)

C6_Witness ==
    /\ StaffingSolution /\ JustPrinted
    /\ \E p \in ProjectIds : Accepted(p) /\ \E d \in DependsOn(p) : d # p /\ Accepted(d)

\* the constraint C.5 adds is the last one of the model
ProfitConstraint == model.cts[Len(model.cts)]

\* the value of revenue - costs, as constrained, under the assignment a
ConstrainedMargin(a) == MinSum(a, ProfitConstraint)

\* C7: the profit margin of every printed block of the staffing printer is
\* the value of the constrained revenue - costs expression and is >= 2500.
C7_PrintedMargin ==
    /\ (prog = "staffing" /\ JustPrinted) =>
          /\ out[Len(out)].margin = out[Len(out)].revenue - out[Len(out)].costs
          /\ out[Len(out)].margin = ConstrainedMargin(asg)
    /\ prog = "staffing" =>
          \A i \in 1..Len(Blocks) : Blocks[i].margin >= MinProfitMargin

\* a block whose costs include a quote with a fraction
C7_Witness ==
    /\ prog = "staffing" /\ JustPrinted
    /\ out[Len(out)].costs > 0
    /\ \E r \in PlanRows : Hired(r) /\ Float(AsTypeInt(r.Quote), 0) # r.Quote

Attributes(a, matrix, attrs, s) == {x \in Range(attrs) : a[matrix[s][x]]}

Holders(a, matrix, x) == {s \in Range(students) : a[matrix[s][x]]}

Bijection(a, matrix, attrs) ==
    /\ \A s \in Range(students) : Cardinality(Attributes(a, matrix, attrs, s)) = 1
    /\ \A x \in Range(attrs) : Cardinality(Holders(a, matrix, x)) = 1

\* C8: in every satisfying assignment of the puzzle model each of the three
\* predicates is a bijection between the students and the attribute values.
C8_Bijections ==
    PuzzleSolution =>
        /\ Bijection(asg, student_nationality, nationalities)
        /\ Bijection(asg, student_university, universities)
        /\ Bijection(asg, student_course, courses)

C8_Witness ==
    /\ PuzzleSolution /\ JustPrinted
    /\ Cardinality({out[Len(out)].table[i].Course : i \in 1..Len(students)}) = Len(students)

\* C9: in both scripts the blocks are printed one per callback and numbered
\* 1, 2, ..., n in the order found, every block comes before the summary, and
\* the summary is printed once, after the search returned, with count n.
C9_BlocksThenSummary ==
    /\ Len(Blocks) = n_solutions
    /\ \A i \in 1..Len(Blocks) : Blocks[i].number = i
    /\ \A i \in 1..Len(out) :
          out[i].kind = "summary" => (i = Len(out) /\ pc = "done")
    /\ pc = "done" =>
          /\ out[Len(out)].kind = "summary"
          /\ out[Len(out)].count = Len(Blocks)
          /\ \A i \in 2..(Len(out) - 1) : out[i].kind = "solution"

C9_Witness ==
    /\ pc = "done" /\ Len(Blocks) >= 2
    /\ out[Len(out)].count = Len(Blocks)

\* no assignment of the model's variables satisfies every constraint
Infeasible == \A a \in [1..model.nvars -> BOOLEAN] : ~Feasible(a, model)

\* C10: when the staffing model is infeasible, solve() ends normally: the
\* callback was never invoked, no block is printed, the status is printed as
\* the search returned it and the reported number of solutions is 0.
C10_InfeasibleModel ==
    (prog = "staffing" /\ pc = "done" /\ Infeasible) =>
        /\ n_solutions = 0
        /\ Len(Blocks) = 0
        /\ out[Len(out)] = [kind |-> "summary", status |-> status, count |-> 0]
        /\ status = "INFEASIBLE"

\* a workbook whose projects cannot reach the margin
C10_Witness ==
    /\ prog = "staffing" /\ pc = "done" /\ Infeasible
    /\ model.nvars > Len(ProjectNames)
    /\ out[Len(out)].kind = "summary"

\* contractor c (0-based, like j, p, m) has a quote for job j
Quoted(c, j) == NotNull(Iloc(data.quotes, c)[j + 1])

\* project p requires job j in month m
Requires(p, j, m) == Iloc(data.projects, p)[m + 1] = Cell(JobNames[j + 1])

AllKeys ==
    (0..(Len(data.quotes) - 1)) \X (0..(Len(JobNames) - 1))
        \X ProjectIds \X (0..(Len(MonthNames) - 1))

ExpectedKeys == {k \in AllKeys : Quoted(k[1], k[2]) /\ Requires(k[3], k[2], k[4])}

VariablesCreated == prog = "staffing" /\ pc \notin {"step1", "step2"}

\* C11: a hiring variable (c, j, p, m) exists iff contractor c has a quote
\* for job j and project p requires job j in month m, one variable per such
\* key; so in every solution nobody is hired for a job they did not quote
\* for, or for a project in a month in which it does not need that job.
C11_HiringVariables ==
    VariablesCreated =>
        /\ DOMAIN var_hiring(data, project_plan) = ExpectedKeys
        /\ model.nvars = Len(data.projects) + Cardinality(ExpectedKeys)
        /\ SolutionFound =>
              \A r \in PlanRows : Hired(r) =>
                  Quoted(r.Contractor, r.Job) /\ Requires(r.Project, r.Job, r.Month)

\* a solution with a hire, for a workbook in which a contractor quoted for a
\* job that a project needs in one month but not in another month, where it
\* needs a different job, and in which some contractor did not quote for a
\* required job
C11_Witness ==
    /\ StaffingSolution /\ JustPrinted
    /\ \E r \in PlanRows : Hired(r)
    /\ \E k \in ExpectedKeys : \E m \in RequiredMonths(k[3]) : ~Requires(k[3], k[2], m)
    /\ \E k \in AllKeys : Requires(k[3], k[2], k[4]) /\ ~Quoted(k[1], k[2])

\* the names of the projects whose decision variable is true
AcceptedNames == {ProjectNames[p + 1] : p \in {q \in ProjectIds : Accepted(q)}}

\* C12: the list "Projects that are taken on" of every block the staffing
\* printer prints is exactly the set of projects whose decision variable is
\* true in that solution, the set whose values make up the printed revenue.
C12_TakenOnList ==
    (prog = "staffing" /\ JustPrinted) =>
        Range(out[Len(out)].taken_on) = AcceptedNames

====
